---- MODULE Spec2Model ----
(***************************************************************************)
(* The geo-join-and-color-scale pipeline of the Census block map scripts   *)
(* (stream.py, stream1.py, stream2.py, stream3.py, stream_app.py).  Every  *)
(* script is one top-to-bottom run: fetch the tabular rows, fetch the      *)
(* geometry features, index the features by GEOID, join the measurement    *)
(* into each feature, compute the colour bounds, colour each feature,      *)
(* compute the view centre and render.  The scripts differ in a few        *)
(* places; `variant` says which script is running.                         *)
(*                                                                         *)
(* Numbers: measurements are integers; a ratio is kept as the exact        *)
(* fraction num/den; coordinates are whole degrees and a centre is the     *)
(* fraction num/den of degrees.                                            *)
(***************************************************************************)
EXTENDS Integers, Sequences, FiniteSets, TLC

\* Longest tabular response (rows) and longest geometry response (features).
MaxRows == 2
MaxFeatures == 3

Variants == {"stream", "stream1", "stream2", "stream3", "stream_app"}

\* st.sidebar.selectbox("Variable", ["H1_001N"])
variable == "H1_001N"

\* Identifiers a geometry feature may carry, and those a tabular row may carry.
FeatureGeoids == {"A", "B", "C"}
RowGeoids == {"A", "B"}
\* Measurements a row may hold after pd.to_numeric(...).fillna(0).
Measurements == {-5, 0, 10, 20}

\* The geometry payloads of the responses: a GeoJSON geometry is its type and
\* its coordinates; `polys` is the list of polygons, each a list of rings,
\* each a list of <<lon, lat>> pairs (a Polygon holds exactly one polygon).
Ring1 == << <<-71, 41>>, <<-72, 42>> >>
Polygon1 == [type |-> "Polygon", polys |-> << << Ring1 >> >>]
Geometries == {Polygon1}

\* Geometries for the view centre: a Polygon with a hole, a MultiPolygon of two
\* polygons, a Point, a Polygon whose first ring is empty and a Polygon with
\* no ring at all.
Ring2 == << <<-60, 30>> >>
Ring3 == << <<-80, 50>>, <<-82, 52>>, <<-84, 51>> >>
PolygonTwoRings == [type |-> "Polygon", polys |-> << << Ring1, Ring2 >> >>]
MultiPolygon1 == [type |-> "MultiPolygon", polys |-> << << Ring3, Ring2 >>, << Ring1 >> >>]
Point1 == [type |-> "Point", polys |-> << >>]
PolygonEmptyRing == [type |-> "Polygon", polys |-> << << << >> >> >>]
PolygonNoRings == [type |-> "Polygon", polys |-> << << >> >>]
PolygonOnePoint == [type |-> "Polygon", polys |-> << << Ring2 >> >>]
CentroidGeometries ==
    {PolygonTwoRings, MultiPolygon1, Point1, PolygonEmptyRing, PolygonNoRings}

\* A tabular row of df: the GEOID column and the measurement column.
Rows == [GEOID : RowGeoids, val : Measurements]

\* The property mappings a fetched feature may have: the GEOID field and one
\* other field of the layer (NAME), or the other field alone.
PropsOf(g) == [GEOID |-> g, NAME |-> "Block"]
PropsNoGeoid == [NAME |-> "Block"]
FetchedProps == {PropsOf(g) : g \in FeatureGeoids} \cup {PropsNoGeoid}
Features == [props : FetchedProps, geometry : Geometries]

SeqsUpTo(S, n) == UNION {[1..k -> S] : k \in 0..n}

\* The responses of the runs that exercise the view centre: one tabular row,
\* and features that differ in their geometry only.
CentroidRowSeqs == {<<[GEOID |-> "A", val |-> 10]>>}
CentroidFeatures == [props : {PropsOf("A")}, geometry : CentroidGeometries]

VARIABLES
    variant,      \* which script runs
    pc,           \* position of the run
    err,          \* the uncaught exception that ended the run, or "none"
    raised_at,    \* the position at which that exception was raised, or "none"
    df,           \* the tabular rows
    geom_res,     \* the geometry response: its kind and the features of its body
    geojson,      \* the parsed geometry response: whether the name is bound,
                  \* whether it has a "features" entry, and the features
    geo_features, \* the GEOID -> feature index dictionary
    min_val,
    max_val,
    ratios,       \* the ratio color_scale computed for each feature, in order
    writes,       \* the feature indices each loop has assigned to, in order
    center,       \* center_lon, center_lat
    rendered,     \* whether st.pydeck_chart was called
    session_state, \* st.session_state of stream_app1.py: kept between reruns
    coordinates,  \* stream_app1.py: the coordinate list of the latest rerun
    view          \* stream_app1.py: how the latest rerun ended and what it drew

navvars == <<session_state, coordinates, view>>

vars == <<variant, pc, err, raised_at, df, geom_res, geojson, geo_features,
          min_val, max_val, ratios, writes, center, rendered, navvars>>

\* Before the first run of stream_app1.py: nothing is drawn, no button exists.
\* `click` is the button that started the rerun and `before` the session
\* state it found, both kept for the rerun that reached the buttons.
NoView == [ended |-> "none", err |-> "none", line |-> 0, mode |-> "none",
           shown |-> "none", read |-> << >>, click |-> "none", before |-> << >>,
           toggle |-> FALSE, prev |-> FALSE, next |-> FALSE]

NoCenter == [lon |-> [num |-> 0, den |-> 0], lat |-> [num |-> 0, den |-> 0]]
DefaultCenter == [lon |-> [num |-> -715, den |-> 10], lat |-> [num |-> 417, den |-> 10]]

Init ==
    /\ variant \in Variants
    /\ pc = "start"
    /\ err = "none"
    /\ raised_at = "none"
    /\ df = << >>
    /\ geom_res = [kind |-> "none", features |-> << >>]
    /\ geojson = [bound |-> FALSE, has_features |-> FALSE, features |-> << >>]
    /\ geo_features = << >>
    /\ min_val = 0
    /\ max_val = 0
    /\ ratios = << >>
    /\ writes = [join |-> << >>, color |-> << >>]
    /\ center = NoCenter
    /\ rendered = FALSE
    /\ session_state = << >>
    /\ coordinates = << >>
    /\ view = NoView

----------------------------------------------------------------------------
\* The join stage.

\* Variant of GeoidOf that reads the identifier with .get("GEOID"): a missing
\* entry yields None and no error.
GeoidOfGet(f) ==
    IF "GEOID" \in DOMAIN f.props
    THEN [ok |-> TRUE, geoid |-> f.props.GEOID]
    ELSE [ok |-> TRUE, geoid |-> "None"]

\* f["properties"]["GEOID"] (f["attributes"]["GEOID"] in stream3): the
\* identifier, or a KeyError when the mapping has no GEOID entry.
GeoidOf(f) ==
    IF "GEOID" \in DOMAIN f.props
    THEN [ok |-> TRUE, geoid |-> f.props.GEOID]
    ELSE [ok |-> FALSE, geoid |-> "KeyError"]

\* row = df.loc[df["GEOID"] == geoid]: the rows with that identifier, in order.
Matching(rows, geoid) == SelectSeq(rows, LAMBDA r : r.GEOID = geoid)

\* Variant of JoinValue that takes the last matching row.
JoinValueLast(rows, geoid) ==
    LET row == Matching(rows, geoid)
    IN  IF row # << >> THEN row[Len(row)].val ELSE 0

\* Variant of JoinValue whose default for a missing match is -1.
JoinValueSentinel(rows, geoid) ==
    LET row == Matching(rows, geoid)
    IN  IF row # << >> THEN row[1].val ELSE -1

\* The value the join loop writes: row[variable].values[0] when row is not
\* empty, else 0.
JoinValue(rows, geoid) ==
    LET row == Matching(rows, geoid)
    IN  IF row # << >> THEN row[1].val ELSE 0

\* d[k] = v on a mapping.
SetItem(d, k, v) == [x \in DOMAIN d \cup {k} |-> IF x = k THEN v ELSE d[x]]

\* Variant of JoinFeature that replaces the property mapping by a fresh one
\* holding the measurement alone.
JoinFeatureFresh(f, rows) ==
    [f EXCEPT !.props = [x \in {variable} |-> JoinValue(rows, GeoidOf(f).geoid)]]

\* One iteration of the join loop on a feature that has its GEOID.
JoinFeature(f, rows) ==
    [f EXCEPT !.props = SetItem(f.props, variable, JoinValue(rows, GeoidOf(f).geoid))]

\* Index of the first feature whose GEOID lookup raises, 0 when none does.
FirstKeyError(fs) ==
    IF \E i \in 1..Len(fs) : ~GeoidOf(fs[i]).ok
    THEN CHOOSE i \in 1..Len(fs) :
            /\ ~GeoidOf(fs[i]).ok
            /\ \A j \in 1..(i - 1) : GeoidOf(fs[j]).ok
    ELSE 0

\* Variant of ComprehensionKeyError for a comprehension that skips the
\* features without GEOID: it never raises.
ComprehensionSkips(fs) == 0

\* The feature at which the geo_features comprehension raises KeyError, 0 when
\* it completes: it reads the GEOID of every feature before the join loop.
ComprehensionKeyError(fs) == FirstKeyError(fs)

\* geo_features = {f["properties"]["GEOID"]: f for f in geojson["features"]}:
\* each identifier maps to the last feature that carries it.
GeoFeaturesDict(fs) ==
    LET keys == {GeoidOf(fs[i]).geoid : i \in 1..Len(fs)}
    IN  [g \in keys |->
            CHOOSE i \in 1..Len(fs) :
                /\ GeoidOf(fs[i]).geoid = g
                /\ \A j \in (i + 1)..Len(fs) : GeoidOf(fs[j]).geoid # g]

\* Variant of JoinTargets that walks the geo_features dictionary: one feature
\* for each identifier, the last that carries it.
JoinTargetsByGeoid(fs) ==
    LET d == GeoFeaturesDict(fs)
        S == {d[g] : g \in DOMAIN d}
    IN  [t \in 1..Cardinality(S) |->
            CHOOSE i \in S : Cardinality({j \in S : j < i}) = t - 1]

\* for i, feature in enumerate(geojson["features"]): the indices the join
\* loop assigns to, in order; the loop ends at the first KeyError.
JoinTargets(fs) ==
    LET k == FirstKeyError(fs)
    IN  [t \in 1..(IF k = 0 THEN Len(fs) ELSE k - 1) |-> t]

\* Variant of JoinLoop without the else branch: a feature that matches no row
\* is left as it was.
JoinLoopNoDefault(fs, rows) ==
    LET ts == JoinTargets(fs)
    IN  [i \in 1..Len(fs) |->
            IF (\E t \in 1..Len(ts) : ts[t] = i)
                  /\ Matching(rows, GeoidOf(fs[i]).geoid) # << >>
            THEN JoinFeature(fs[i], rows)
            ELSE fs[i]]

\* The join loop over geojson["features"]: every feature the loop reaches is
\* written, the others are left as they were.
JoinLoop(fs, rows) ==
    LET ts == JoinTargets(fs)
    IN  [i \in 1..Len(fs) |->
            IF \E t \in 1..Len(ts) : ts[t] = i
            THEN JoinFeature(fs[i], rows)
            ELSE fs[i]]

----------------------------------------------------------------------------
\* The color stage.

RECURSIVE MinOf(_)
MinOf(s) ==
    IF Len(s) = 1 THEN s[1]
    ELSE LET m == MinOf(Tail(s)) IN IF s[1] <= m THEN s[1] ELSE m

RECURSIVE MaxOf(_)
MaxOf(s) ==
    IF Len(s) = 1 THEN s[1]
    ELSE LET m == MaxOf(Tail(s)) IN IF s[1] >= m THEN s[1] ELSE m

\* Whether the variant reads the values with f["properties"][variable]
\* (KeyError on a feature without the entry) or with .get(variable), dropping
\* the features without it.
StrictVals(v) == v \in {"stream", "stream1", "stream_app"}

\* Variant of Vals that drops the falsy values (`if f["properties"].get(variable)`).
ValsTruthy(v, fs) ==
    LET has == SelectSeq(fs, LAMBDA f : variable \in DOMAIN f.props
                                          /\ f.props[variable] # 0)
    IN  [ok |-> TRUE, vals |-> [i \in 1..Len(has) |-> has[i].props[variable]]]

\* Variant of Vals that reads the measurements of the tabular rows.
ValsOfRows(v, fs) ==
    [ok |-> TRUE, vals |-> [i \in 1..Len(df) |-> df[i].val]]

\* vals = [f["properties"][variable] for f in geojson["features"]]
Vals(v, fs) ==
    LET has == SelectSeq(fs, LAMBDA f : variable \in DOMAIN f.props)
    IN  [ok |-> ~StrictVals(v) \/ Len(has) = Len(fs),
         vals |-> [i \in 1..Len(has) |-> has[i].props[variable]]]

\* min_val, max_val.  stream.py, stream1.py and stream_app.py evaluate
\*   min(vals), (max(vals) if vals else (0, 1))
\* so min(vals) raises ValueError on an empty list; stream2.py and stream3.py
\* test `if not vals` first.
Bounds(v, vals) ==
    IF vals = << >>
    THEN IF StrictVals(v)
         THEN [ok |-> FALSE, min |-> 0, max |-> 0]
         ELSE [ok |-> TRUE, min |-> 0, max |-> 1]
    ELSE [ok |-> TRUE, min |-> MinOf(vals), max |-> MaxOf(vals)]

\* int(a / b): truncation toward zero, b # 0.
TruncDiv(a, b) ==
    LET abs(x) == IF x < 0 THEN -x ELSE x
        q == abs(a) \div abs(b)
    IN  IF (a < 0) # (b < 0) THEN -q ELSE q

\* The ratio of color_scale, as the fraction num/den; `divided` says whether
\* the division branch was taken.
Ratio(val, mn, mx) ==
    IF mx = mn
    THEN [num |-> 0, den |-> 1, divided |-> FALSE]
    ELSE [num |-> val - mn, den |-> mx - mn, divided |-> TRUE]

\* Variant of Up that scales by 256.
Up256(r) == TruncDiv(256 * r.num, r.den)

\* Variant of Up that rounds to the nearest integer, halves upwards.
UpRounded(r) == (2 * 255 * r.num + r.den) \div (2 * r.den)

\* int(255 * ratio) and int(255 * (1 - ratio))
Up(r) == TruncDiv(255 * r.num, r.den)
Down(r) == TruncDiv(255 * (r.den - r.num), r.den)

\* Variant of color_scale in which stream.py's channel assignment, blue
\* following red, is used by every script.
color_scaleBlueFollows(v, val, mn, mx) ==
    LET ratio == Ratio(val, mn, mx)
    IN  IF v = "stream"
        THEN <<Down(ratio), Up(ratio), Down(ratio)>>
        ELSE <<Up(ratio), Down(ratio), Up(ratio)>>

\* color_scale(val): [r, g, b].  stream.py lets red and blue fall and green
\* rise; the other scripts let red rise and green fall and hold blue at 0.
color_scale(v, val, mn, mx) ==
    LET ratio == Ratio(val, mn, mx)
    IN  IF v = "stream"
        THEN <<Down(ratio), Up(ratio), Down(ratio)>>
        ELSE <<Up(ratio), Down(ratio), 0>>

\* for i, feature in enumerate(geojson["features"]): the indices the color
\* loop assigns to, in order.
ColorTargets(fs) == [t \in 1..Len(fs) |-> t]

\* Variant of ColorLoop that also writes the value back, clamped at 0.
ColorLoopClamp(v, fs, mn, mx) ==
    [i \in 1..Len(fs) |->
        [fs[i] EXCEPT !.props =
            SetItem(SetItem(fs[i].props, "fill_color",
                            color_scale(v, fs[i].props[variable], mn, mx)),
                    variable,
                    IF fs[i].props[variable] < 0 THEN 0 ELSE fs[i].props[variable])]]

\* The color loop: feature["properties"]["fill_color"] = color_scale(val).
ColorLoop(v, fs, mn, mx) ==
    LET ts == ColorTargets(fs)
    IN  [i \in 1..Len(fs) |->
            IF \E t \in 1..Len(ts) : ts[t] = i
            THEN [fs[i] EXCEPT !.props =
                    SetItem(fs[i].props, "fill_color",
                            color_scale(v, fs[i].props[variable], mn, mx))]
            ELSE fs[i]]

----------------------------------------------------------------------------
\* The centroid and the coordinate list.

\* Whether `coords = ...` raises IndexError, and the coordinate pairs taken
\* from one geometry: geom["coordinates"][0] of a Polygon,
\* geom["coordinates"][0][0] of a MultiPolygon, none of another type; in
\* stream3.py geom["rings"][0] when the geometry has rings.
CoordsOk(v, geom) ==
    IF v = "stream3"
    THEN geom.type # "rings" \/ (Len(geom.polys) >= 1 /\ Len(geom.polys[1]) >= 1)
    ELSE geom.type \in {"Polygon", "MultiPolygon"}
            => (Len(geom.polys) >= 1 /\ Len(geom.polys[1]) >= 1)

\* Variant of Coords that takes every ring of the first polygon.
CoordsAllRings(v, geom) ==
    IF geom.type \in {"Polygon", "MultiPolygon", "rings"}
    THEN geom.polys[1][1]
            \o (IF Len(geom.polys[1]) >= 2 THEN geom.polys[1][2] ELSE << >>)
    ELSE << >>

Coords(v, geom) ==
    IF v = "stream3"
    THEN IF geom.type = "rings" THEN geom.polys[1][1] ELSE << >>
    ELSE IF geom.type \in {"Polygon", "MultiPolygon"}
         THEN geom.polys[1][1]
         ELSE << >>

\* The pairs of every feature, in feature order.
RECURSIVE AllCoords(_, _)
AllCoords(v, fs) ==
    IF fs = << >> THEN << >>
    ELSE Coords(v, Head(fs).geometry) \o AllCoords(v, Tail(fs))

RECURSIVE SumAt(_, _)
SumAt(cs, k) == IF cs = << >> THEN 0 ELSE Head(cs)[k] + SumAt(Tail(cs), k)

\* Variant of Centroid that tests the feature list only.
CentroidUnguarded(v, fs) ==
    LET cs == AllCoords(v, fs)
    IN  IF fs # << >>
        THEN [lon |-> [num |-> SumAt(cs, 1), den |-> Len(cs)],
              lat |-> [num |-> SumAt(cs, 2), den |-> Len(cs)]]
        ELSE DefaultCenter

\* center_lon, center_lat: the means of the collected longitudes and
\* latitudes, or the default when the collection or the lists are empty.
Centroid(v, fs) ==
    LET cs == AllCoords(v, fs)
    IN  IF fs # << >> /\ cs # << >>
        THEN [lon |-> [num |-> SumAt(cs, 1), den |-> Len(cs)],
              lat |-> [num |-> SumAt(cs, 2), den |-> Len(cs)]]
        ELSE DefaultCenter

----------------------------------------------------------------------------
\* The run goes on to position p.
Goto(p) == pc' = p /\ UNCHANGED <<err, raised_at>>
\* st.stop(): the run ends without an exception.
Stop == Goto("stopped")
\* An uncaught exception ends the run.
Raise(e) == pc' = "failed" /\ err' = e /\ raised_at' = pc

----------------------------------------------------------------------------
\* Fetch of the tabular data and construction of df, the rows of an ok
\* response drawn from RS.
FetchTabularFrom(RS) ==
    /\ pc = "start"
    /\ \E kind \in {"ok", "http_error", "bad_json"} :
       \E rows \in RS \cup {<< >>} :
          IF kind # "ok"
          THEN /\ rows = << >>
               /\ Stop
               /\ UNCHANGED df
          ELSE /\ df' = rows
               /\ IF rows = << >> /\ variant = "stream"
                  THEN Stop
                  ELSE IF rows = << >> /\ variant = "stream2"
                       THEN Raise("IndexError")
                       ELSE Goto("tabular_done")
    /\ UNCHANGED writes
    /\ UNCHANGED navvars
    /\ UNCHANGED <<variant, geom_res, geojson, geo_features, min_val, max_val,
                   ratios, center, rendered>>

\* The kinds of geometry response: a 200 response with a feature list, a
\* 4xx/5xx response, a 200 response whose body is not JSON, a 200 response
\* whose JSON has no "features" entry, and such a response whose text holds
\* "Unable to complete operation".
ResponseKinds == {"ok", "http_error", "bad_json", "no_features", "unable"}

\* Fetch of the geometry and parsing of the response into geojson.
\* stream.py, stream1.py, stream2.py: st.stop() on a status other than 200 and
\* on a body that is not JSON; stream1.py also when "features" is missing.
\* stream_app.py prints the error and goes on with geojson unbound.
\* stream3.py: raise_for_status() raises on an error status; a body that is
\* not JSON is reported and the run goes on with geojson unbound.
\* The features of an ok response are drawn from FS.
FetchGeometryFrom(FS) ==
    /\ pc = "tabular_done"
    /\ \E kind \in ResponseKinds :
       \E fs \in FS \cup {<< >>} :
          /\ kind # "ok" => fs = << >>
          /\ geom_res' = [kind |-> kind, features |-> fs]
          /\ LET parsed == [bound |-> TRUE, has_features |-> kind = "ok",
                            features |-> fs]
             IN  CASE kind = "ok" ->
                        geojson' = parsed /\ Goto("geometry_done")
                   [] kind \in {"http_error", "bad_json"} ->
                        /\ UNCHANGED geojson
                        /\ IF variant \in {"stream", "stream1", "stream2"}
                           THEN Stop
                           ELSE IF variant = "stream3" /\ kind = "http_error"
                                THEN Raise("HTTPError")
                                ELSE Goto("geometry_done")
                   [] kind = "no_features" ->
                        /\ geojson' = parsed
                        /\ IF variant = "stream1" THEN Stop ELSE Goto("geometry_done")
                   [] kind = "unable" ->
                        IF variant = "stream_app"
                        THEN UNCHANGED geojson /\ Goto("geometry_done")
                        ELSE /\ geojson' = parsed
                             /\ IF variant = "stream1"
                                THEN Stop
                                ELSE Goto("geometry_done")
    /\ UNCHANGED writes
    /\ UNCHANGED navvars
    /\ UNCHANGED <<variant, df, geo_features, min_val, max_val,
                   ratios, center, rendered>>

FetchTabular == FetchTabularFrom(SeqsUpTo(Rows, MaxRows))
FetchGeometry == FetchGeometryFrom(SeqsUpTo(Features, MaxFeatures))

\* geo_features = {...}: the dictionary comprehension before the join loop.
\* A geometry collection that was never bound raises NameError and one
\* without "features" KeyError; stream3.py filters with
\* `if "GEOID" in f["STATE"]`, and a feature (attributes and geometry only)
\* has no STATE key; a feature without GEOID raises KeyError.
BuildGeoFeatures ==
    /\ pc = "geometry_done"
    /\ IF ~geojson.bound
       THEN Raise("NameError") /\ UNCHANGED geo_features
       ELSE IF ~geojson.has_features
                \/ (variant = "stream3" /\ geojson.features # << >>)
            THEN Raise("KeyError") /\ UNCHANGED geo_features
            ELSE IF ComprehensionKeyError(geojson.features) # 0
                 THEN Raise("KeyError") /\ UNCHANGED geo_features
                 ELSE /\ geo_features' = GeoFeaturesDict(geojson.features)
                      /\ Goto("indexed")
    /\ UNCHANGED writes
    /\ UNCHANGED navvars
    /\ UNCHANGED <<variant, df, geom_res, geojson, min_val, max_val,
                   ratios, center, rendered>>

\* The join loop: merge the tabular data into the feature properties.
Join ==
    /\ pc = "indexed"
    /\ geojson' = [geojson EXCEPT !.features = JoinLoop(geojson.features, df)]
    /\ writes' = [writes EXCEPT !.join = JoinTargets(geojson.features)]
    /\ IF FirstKeyError(geojson.features) # 0
       THEN Raise("KeyError")
       ELSE Goto("joined")
    /\ UNCHANGED navvars
    /\ UNCHANGED <<variant, df, geom_res, geo_features, min_val, max_val,
                   ratios, center, rendered>>

\* vals and min_val, max_val.
ColorBounds ==
    /\ pc = "joined"
    /\ LET vs == Vals(variant, geojson.features)
           b == Bounds(variant, vs.vals)
       IN  IF ~vs.ok
           THEN Raise("KeyError") /\ UNCHANGED <<min_val, max_val>>
           ELSE IF ~b.ok
                THEN Raise("ValueError") /\ UNCHANGED <<min_val, max_val>>
                ELSE /\ min_val' = b.min
                     /\ max_val' = b.max
                     /\ Goto("scaled")
    /\ UNCHANGED writes
    /\ UNCHANGED navvars
    /\ UNCHANGED <<variant, df, geom_res, geojson, geo_features,
                   ratios, center, rendered>>

\* The color loop: a fill_color on every feature.
Color ==
    /\ pc = "scaled"
    /\ geojson' = [geojson EXCEPT
                     !.features = ColorLoop(variant, geojson.features, min_val, max_val)]
    /\ ratios' = [i \in 1..Len(geojson.features) |->
                     Ratio(geojson.features[i].props[variable], min_val, max_val)]
    /\ writes' = [writes EXCEPT !.color = ColorTargets(geojson.features)]
    /\ Goto("colored")
    /\ UNCHANGED navvars
    /\ UNCHANGED <<variant, df, geom_res, geo_features, min_val, max_val,
                   center, rendered>>

\* The centroid for the initial map view (every script but stream.py).
ComputeCentroid ==
    /\ pc = "colored"
    /\ variant # "stream"
    /\ IF \E i \in 1..Len(geojson.features) :
             ~CoordsOk(variant, geojson.features[i].geometry)
       THEN Raise("IndexError") /\ UNCHANGED center
       ELSE /\ center' = Centroid(variant, geojson.features)
            /\ Goto("centered")
    /\ UNCHANGED writes
    /\ UNCHANGED navvars
    /\ UNCHANGED <<variant, df, geom_res, geojson, geo_features, min_val,
                   max_val, ratios, rendered>>

\* st.pydeck_chart(pdk.Deck(...)) on the colored collection.
Render ==
    /\ pc = "centered"
    /\ rendered' = TRUE
    /\ Goto("done")
    /\ UNCHANGED writes
    /\ UNCHANGED navvars
    /\ UNCHANGED <<variant, df, geom_res, geojson, geo_features, min_val,
                   max_val, ratios, center>>

\* stream.py: the coordinate list and its scatter plot, centred on the first
\* coordinate; an empty list is reported with st.error.
PlotCoordinates ==
    /\ pc = "colored"
    /\ variant = "stream"
    /\ IF \E i \in 1..Len(geojson.features) :
             ~CoordsOk(variant, geojson.features[i].geometry)
       THEN Raise("IndexError") /\ UNCHANGED <<center, rendered>>
       ELSE LET cs == AllCoords(variant, geojson.features)
            IN  /\ IF cs # << >>
                   THEN /\ center' = [lon |-> [num |-> cs[1][1], den |-> 1],
                                      lat |-> [num |-> cs[1][2], den |-> 1]]
                        /\ rendered' = TRUE
                   ELSE UNCHANGED <<center, rendered>>
                /\ Goto("done")
    /\ UNCHANGED writes
    /\ UNCHANGED navvars
    /\ UNCHANGED <<variant, df, geom_res, geojson, geo_features, min_val,
                   max_val, ratios>>

Next ==
    \/ FetchTabular
    \/ FetchGeometry
    \/ BuildGeoFeatures
    \/ Join
    \/ ColorBounds
    \/ Color
    \/ ComputeCentroid
    \/ Render
    \/ PlotCoordinates

Spec == Init /\ [][Next]_vars

\* The runs over the geometries of the view centre.
FetchTabularCentroid == FetchTabularFrom(CentroidRowSeqs)
FetchGeometryCentroid == FetchGeometryFrom(SeqsUpTo(CentroidFeatures, MaxFeatures))

NextCentroid ==
    \/ FetchTabularCentroid
    \/ FetchGeometryCentroid
    \/ BuildGeoFeatures
    \/ Join
    \/ ColorBounds
    \/ Color
    \/ ComputeCentroid
    \/ Render
    \/ PlotCoordinates

SpecCentroid == Init /\ [][NextCentroid]_vars

----------------------------------------------------------------------------
\* stream_app1.py: the coordinate browser.  Every rerun executes the whole
\* script; st.session_state is all that one rerun leaves to the next.

pipevars == <<variant, pc, err, raised_at, df, geom_res, geojson, geo_features,
              min_val, max_val, ratios, writes, center, rendered>>

\* The geometries of the features stream_app1.py browses.
NavGeometries ==
    {PolygonTwoRings, MultiPolygon1, Point1, PolygonNoRings, PolygonOnePoint}
NavFeatures == [props : {PropsOf("A")}, geometry : NavGeometries]
\* The most features a response to stream_app1.py holds.
MaxNavFeatures == 2

\* The tabular response: usable, an error status, a body that cannot be made
\* into df, and a body without rows.
TabularKinds == {"ok", "http_error", "bad_data", "empty"}
\* The geometry response, as for the other scripts.
GeometryKinds == {"ok", "http_error", "bad_json", "no_features"}
\* What started the rerun: a first load or a changed input, or a button.
Clicks == {"none", "toggle", "previous", "next"}

\* coordinates.append({"lat": lat, "lon": lon}) for every pair of every
\* feature's first ring.
CoordinateList(fs) ==
    LET cs == AllCoords("stream_app1", fs)
    IN  [k \in 1..Len(cs) |-> [lat |-> cs[k][2], lon |-> cs[k][1]]]

\* if "current_index" not in st.session_state: ... = 0
\* if "show_all" not in st.session_state: ... = False
InitSession(ss) ==
    LET s1 == IF "current_index" \in DOMAIN ss THEN ss
              ELSE SetItem(ss, "current_index", 0)
    IN  IF "show_all" \in DOMAIN s1 THEN s1 ELSE SetItem(s1, "show_all", FALSE)

\* Variant of ToggleView that also returns to the first coordinate.
ToggleViewResets(ss, click) ==
    IF click = "toggle"
    THEN [ss EXCEPT !["show_all"] = ~@, !["current_index"] = 0]
    ELSE ss

\* if st.sidebar.button("Toggle View (All / Navigate)"): show_all = not show_all
ToggleView(ss, click) ==
    IF click = "toggle" THEN [ss EXCEPT !["show_all"] = ~@] ELSE ss

\* prev_disabled and next_disabled, computed before the buttons are drawn.
prev_disabled(ss) == ss["current_index"] <= 0
next_disabled(ss, n) == ss["current_index"] >= n - 1

\* Variant of Navigate that moves the index whatever the disabled flags say.
NavigateUnguarded(ss, click, n) ==
    IF ss["show_all"] THEN ss
    ELSE IF click = "previous"
         THEN [ss EXCEPT !["current_index"] = @ - 1]
         ELSE IF click = "next"
              THEN [ss EXCEPT !["current_index"] = @ + 1]
              ELSE ss

\* The Previous / Next block, run only when show_all is false.
Navigate(ss, click, n) ==
    IF ss["show_all"] THEN ss
    ELSE IF click = "previous" /\ ~prev_disabled(ss)
         THEN [ss EXCEPT !["current_index"] = @ - 1]
         ELSE IF click = "next" /\ ~next_disabled(ss, n)
              THEN [ss EXCEPT !["current_index"] = @ + 1]
              ELSE ss

\* The rerun ended at st.stop() before any button was drawn.
StoppedView == [NoView EXCEPT !.ended = "stopped"]
\* The rerun ended with an uncaught exception before any button was drawn.
FailedView(e, l) == [NoView EXCEPT !.ended = "failed", !.err = e, !.line = l]

\* The display block: all coordinates centred on coordinates[0], or the
\* coordinate at current_index, or the report that there is none.  A Python
\* list of length n accepts the indices -n..n-1.
Display(ss, cs, buttons) ==
    IF ss["show_all"]
    THEN IF cs = << >>
         THEN [buttons EXCEPT !.ended = "failed", !.err = "IndexError",
                              !.line = 137, !.mode = "all"]
         ELSE [buttons EXCEPT !.ended = "done", !.mode = "all", !.shown = "all"]
    ELSE IF cs # << >>
         THEN LET i == ss["current_index"]
              IN  IF i >= -Len(cs) /\ i < Len(cs)
                  THEN [buttons EXCEPT !.ended = "done", !.mode = "navigate",
                                       !.shown = "one", !.read = <<i>>]
                  ELSE [buttons EXCEPT !.ended = "failed", !.err = "IndexError",
                                       !.line = 158, !.mode = "navigate",
                                       !.read = <<i>>]
         ELSE [buttons EXCEPT !.ended = "done", !.mode = "navigate",
                              !.shown = "no_coordinates"]

\* One rerun of the script, started by `click`, over freshly fetched responses.
Rerun(click) ==
    /\ \E tk \in TabularKinds : \E gk \in GeometryKinds :
       \E fs \in SeqsUpTo(NavFeatures, MaxNavFeatures) :
          /\ (tk # "ok" \/ gk # "ok") => fs = << >>
          /\ IF tk # "ok" \/ gk \in {"http_error", "bad_json"}
             THEN /\ view' = StoppedView
                  /\ coordinates' = << >>
                  /\ UNCHANGED session_state
             ELSE IF gk = "no_features"
             THEN /\ view' = FailedView("KeyError", 91)
                  /\ coordinates' = << >>
                  /\ UNCHANGED session_state
             ELSE IF \E i \in 1..Len(fs) : ~CoordsOk("stream_app1", fs[i].geometry)
             THEN /\ view' = FailedView("IndexError", 94)
                  /\ coordinates' = << >>
                  /\ UNCHANGED session_state
             ELSE LET cs == CoordinateList(fs)
                      s1 == ToggleView(InitSession(session_state), click)
                      s2 == Navigate(s1, click, Len(cs))
                      buttons ==
                          [NoView EXCEPT
                             !.click = click,
                             !.before = InitSession(session_state),
                             !.toggle = TRUE,
                             !.prev = ~s1["show_all"] /\ ~prev_disabled(s1),
                             !.next = ~s1["show_all"] /\ ~next_disabled(s1, Len(cs))]
                  IN  /\ coordinates' = cs
                      /\ session_state' = s2
                      /\ view' = Display(s2, cs, buttons)
    /\ UNCHANGED pipevars

\* The first load, or a rerun after an input of the sidebar changed.
RerunInputs == Rerun("none")
\* A click on a button the latest rerun drew, and drew enabled.
ClickToggle == view.toggle /\ Rerun("toggle")
ClickPrevious == view.prev /\ Rerun("previous")
ClickNext == view.next /\ Rerun("next")

InitNav ==
    /\ variant = "stream_app1"
    /\ pc = "start"
    /\ err = "none"
    /\ raised_at = "none"
    /\ df = << >>
    /\ geom_res = [kind |-> "none", features |-> << >>]
    /\ geojson = [bound |-> FALSE, has_features |-> FALSE, features |-> << >>]
    /\ geo_features = << >>
    /\ min_val = 0
    /\ max_val = 0
    /\ ratios = << >>
    /\ writes = [join |-> << >>, color |-> << >>]
    /\ center = NoCenter
    /\ rendered = FALSE
    /\ session_state = << >>
    /\ coordinates = << >>
    /\ view = NoView

NextNav ==
    \/ RerunInputs
    \/ ClickToggle
    \/ ClickPrevious
    \/ ClickNext

SpecNav == InitNav /\ [][NextNav]_vars

\* A session over one coordinate list: the first load yields a list of one
\* coordinate or more, and every click reruns the script over the same
\* responses.
FirstLoad == view = NoView /\ RerunInputs /\ Len(coordinates') >= 1
ToggleSameList == ClickToggle /\ coordinates' = coordinates
PreviousSameList == ClickPrevious /\ coordinates' = coordinates
NextSameList == ClickNext /\ coordinates' = coordinates

NextNavFixed ==
    \/ FirstLoad
    \/ ToggleSameList
    \/ PreviousSameList
    \/ NextSameList

SpecNavFixed == InitNav /\ [][NextNavFixed]_vars

----------------------------------------------------------------------------
\* Properties of the pipeline.

\* The run is past the join loop, which completed.
PostJoin == pc \in {"joined", "scaled", "colored", "centered", "done"}
\* The run is past the color loop.
PostColor == pc \in {"colored", "centered", "done"}

\* The features as fetched and as they are now.
Fetched == geom_res.features
Current == geojson.features
\* The value attached to feature i.
Attached(i) == Current[i].props[variable]
\* The rows of df that carry the identifier of feature i.
RowsFor(i) == {k \in 1..Len(df) : df[k].GEOID = Fetched[i].props.GEOID}

\* C1 as stated (last-wins): after the join every feature with a matching row
\* holds the measurement of the LAST row that carries its identifier.
C1_LastWins ==
    PostJoin =>
        \A i \in 1..Len(Current) :
            RowsFor(i) # {} =>
                \E k \in RowsFor(i) :
                    /\ \A j \in RowsFor(i) : j <= k
                    /\ Attached(i) = df[k].val

\* C1 amended (first-wins): after the join every feature with a matching row
\* holds the measurement of the FIRST row, in row order, that carries its
\* identifier.
C1_FirstWins ==
    PostJoin =>
        \A i \in 1..Len(Current) :
            RowsFor(i) # {} =>
                \E k \in RowsFor(i) :
                    /\ \A j \in RowsFor(i) : k <= j
                    /\ Attached(i) = df[k].val

\* Two rows share feature 1's identifier with different measurements and
\* the join has run.
C1_Witness ==
    /\ pc = "joined"
    /\ Len(Current) >= 1
    /\ Cardinality(RowsFor(1)) = 2
    /\ df[1].val # df[2].val
    /\ Attached(1) = df[1].val

\* C2: after the join every feature whose identifier matches no row holds
\* exactly 0, and the join loop itself never raises (a missing match is not
\* an error).
C2_UnmatchedIsZero ==
    /\ PostJoin =>
          \A i \in 1..Len(Current) : RowsFor(i) = {} => Attached(i) = 0
    /\ ~(pc = "failed" /\ raised_at = "indexed")

\* The join has run on a collection with an unmatched feature beside a
\* matched one, and the run went on to the color bounds.
C2_Witness ==
    /\ pc = "scaled"
    /\ Len(Current) = 2
    /\ RowsFor(1) # {} /\ RowsFor(2) = {}
    /\ Attached(1) # 0 /\ Attached(2) = 0
\* C3 as stated: on an empty feature collection the bounds are (0, 1) and the
\* stage does not fail; otherwise they are the minimum and the maximum of the
\* attached values.
C3_BoundsDefaultOrExtremes ==
    (geojson.bound /\ (pc \in {"scaled", "colored", "centered", "done"}
                       \/ (pc = "failed" /\ raised_at = "joined"))) =>
        /\ pc # "failed"
        /\ Current = << >> => (min_val = 0 /\ max_val = 1)
        /\ Current # << >> =>
              /\ \E i \in 1..Len(Current) : Attached(i) = min_val
              /\ \E i \in 1..Len(Current) : Attached(i) = max_val
              /\ \A i \in 1..Len(Current) :
                    min_val <= Attached(i) /\ Attached(i) <= max_val

\* C4 as stated: a run whose geometry response holds zero features ends
\* rendered, without an exception, with the default view centre (the scripts
\* that compute a centre: all but stream.py).
C4_EmptyCollectionCompletes ==
    (variant # "stream" /\ geom_res.kind = "ok" /\ Fetched = << >>
        /\ pc \in {"done", "failed", "stopped"}) =>
        /\ pc = "done"
        /\ rendered
        /\ center = DefaultCenter

\* C5: every ratio computed by the color loop lies in [0, 1]; when min_val
\* equals max_val every ratio is 0 and the division branch is not taken.
C5_RatioInUnitInterval ==
    PostColor =>
        /\ Len(ratios) = Len(Current)
        /\ \A i \in 1..Len(ratios) :
              /\ ratios[i].den > 0
              /\ 0 <= ratios[i].num /\ ratios[i].num <= ratios[i].den
              /\ ratios[i] = Ratio(Attached(i), min_val, max_val)
        /\ min_val = max_val =>
              \A i \in 1..Len(ratios) : ratios[i].num = 0 /\ ~ratios[i].divided

\* The degenerate scale on a single feature with a non-zero measurement.
C5_Witness ==
    /\ pc = "colored"
    /\ Len(Current) = 1
    /\ Attached(1) = 10
    /\ min_val = 10 /\ max_val = 10
    /\ ratios[1].num = 0 /\ ~ratios[1].divided

\* C6: when a fetched feature lacks its GEOID field the run ends with the
\* KeyError raised before the join loop; no feature is skipped or given a
\* value, and nothing is rendered.
C6_MissingGeoidIsFatal ==
    (geojson.bound /\ pc # "geometry_done"
        /\ \E i \in 1..Len(Fetched) : "GEOID" \notin DOMAIN Fetched[i].props) =>
        /\ pc = "failed"
        /\ err = "KeyError"
        /\ raised_at = "geometry_done"
        /\ ~rendered
        /\ Current = Fetched

\* The second feature lacks its GEOID, the first has one with a matching row,
\* and the run has failed.
C6_Witness ==
    /\ pc = "failed"
    /\ variant = "stream1"
    /\ Len(Fetched) = 2
    /\ "GEOID" \in DOMAIN Fetched[1].props
    /\ "GEOID" \notin DOMAIN Fetched[2].props
    /\ \E k \in 1..Len(df) : df[k].GEOID = Fetched[1].props.GEOID

\* C7: right after the join the feature sequence has the same length and
\* order; each feature keeps its geometry and every attribute it had, and its
\* mapping holds exactly one more entry, the measurement.
C7_JoinFrame ==
    pc = "joined" =>
        /\ Len(Current) = Len(Fetched)
        /\ \A i \in 1..Len(Current) :
              /\ Current[i].geometry = Fetched[i].geometry
              /\ variable \notin DOMAIN Fetched[i].props
              /\ DOMAIN Current[i].props = DOMAIN Fetched[i].props \cup {variable}
              /\ \A k \in DOMAIN Fetched[i].props :
                    Current[i].props[k] = Fetched[i].props[k]

\* Three features with different identifiers have been joined.
C7_Witness ==
    /\ pc = "joined"
    /\ Len(Current) = 3
    /\ Current[1].props.GEOID = "B"
    /\ Current[2].props.GEOID = "C"
    /\ Current[3].props.GEOID = "A"
    /\ Attached(1) = 20

\* C8: the bounds are those of the values attached to the features, the 0
\* defaults included, whatever the rows hold; for rows A=10, B=20 and features
\* A, B, C the values are 10, 20, 0, the bounds 0 and 20 and the ratios 1/2, 1
\* and 0.
C8_Scenario ==
    /\ df = <<[GEOID |-> "A", val |-> 10], [GEOID |-> "B", val |-> 20]>>
    /\ Len(Fetched) = 3
    /\ \A i \in 1..3 : "GEOID" \in DOMAIN Fetched[i].props
    /\ Fetched[1].props.GEOID = "A"
    /\ Fetched[2].props.GEOID = "B"
    /\ Fetched[3].props.GEOID = "C"

C8_BoundsOverAttachedValues ==
    /\ (pc \in {"scaled", "colored", "centered", "done"} /\ Current # << >>) =>
          /\ \E i \in 1..Len(Current) : Attached(i) = min_val
          /\ \E i \in 1..Len(Current) : Attached(i) = max_val
          /\ \A i \in 1..Len(Current) :
                min_val <= Attached(i) /\ Attached(i) <= max_val
          /\ (\E i \in 1..Len(Current) : RowsFor(i) = {}) =>
                (min_val <= 0 /\ 0 <= max_val)
    /\ (PostColor /\ C8_Scenario) =>
          /\ Attached(1) = 10 /\ Attached(2) = 20 /\ Attached(3) = 0
          /\ min_val = 0 /\ max_val = 20
          /\ 2 * ratios[1].num = ratios[1].den
          /\ ratios[2].num = ratios[2].den
          /\ ratios[3].num = 0

\* The scenario has been joined and colored.
C8_Witness ==
    /\ pc = "colored"
    /\ variant = "stream2"
    /\ C8_Scenario
    /\ min_val = 0 /\ max_val = 20

\* C9: every fill_color the color loop writes is a triple of integers in
\* 0..255.
C9_ChannelsInRange ==
    PostColor =>
        \A i \in 1..Len(Current) :
            /\ "fill_color" \in DOMAIN Current[i].props
            /\ Len(Current[i].props.fill_color) = 3
            /\ \A c \in 1..3 : Current[i].props.fill_color[c] \in 0..255

\* Features with a negative, a zero and a positive value have been colored.
C9_Witness ==
    /\ pc = "colored"
    /\ Len(Current) = 3
    /\ Attached(1) = -5 /\ Attached(2) = 0 /\ Attached(3) = 20
    /\ Current[1].props.fill_color[1] = 0
    /\ Current[3].props.fill_color[1] = 255

\* The fill_color of feature i.
FillColor(i) == Current[i].props.fill_color

\* C10 as stated: some channel never falls as the value rises, another never
\* rises, and the third is the same for every feature.
C10_TwoVaryOneConstant ==
    PostColor =>
        \E up \in 1..3 : \E down \in (1..3) \ {up} : \E const \in (1..3) \ {up, down} :
            \A i \in 1..Len(Current) : \A j \in 1..Len(Current) :
                /\ Attached(i) <= Attached(j) =>
                      /\ FillColor(i)[up] <= FillColor(j)[up]
                      /\ FillColor(i)[down] >= FillColor(j)[down]
                /\ FillColor(i)[const] = FillColor(j)[const]

\* C10 amended: in every script but stream.py red never falls and green
\* never rises as the value rises, and blue is 0 for every feature; in
\* stream.py green never falls, red never rises and blue equals red, so all
\* three channels vary.
C10_ChannelsByVariant ==
    PostColor =>
        \A i \in 1..Len(Current) : \A j \in 1..Len(Current) :
            IF variant = "stream"
            THEN /\ Attached(i) <= Attached(j) =>
                       /\ FillColor(i)[2] <= FillColor(j)[2]
                       /\ FillColor(i)[1] >= FillColor(j)[1]
                 /\ FillColor(i)[3] = FillColor(i)[1]
                 /\ Attached(i) = min_val /\ Attached(j) = max_val /\ min_val # max_val
                       => FillColor(i)[3] # FillColor(j)[3]
            ELSE /\ Attached(i) <= Attached(j) =>
                       /\ FillColor(i)[1] <= FillColor(j)[1]
                       /\ FillColor(i)[2] >= FillColor(j)[2]
                 /\ FillColor(i)[3] = 0

\* stream.py has colored two features with different values: blue differs.
C10_Witness ==
    /\ pc = "colored"
    /\ variant = "stream"
    /\ Len(Current) = 2
    /\ Attached(1) < Attached(2)
    /\ FillColor(1) = <<255, 0, 255>>
    /\ FillColor(2) = <<0, 255, 0>>
\* C11: the color stage (bounds and color loop) run again on the colored
\* collection computes the same bounds and leaves every feature's attribute
\* mapping, attached value and fill_color, as it is.
C11_ColorStageIdempotent ==
    PostColor =>
        LET vs == Vals(variant, Current)
            b == Bounds(variant, vs.vals)
        IN  /\ vs.ok
            /\ Current # << >> =>
                  /\ b.ok /\ b.min = min_val /\ b.max = max_val
                  /\ ColorLoop(variant, Current, b.min, b.max) = Current

\* A colored collection with a negative, a default and a positive value.
C11_Witness ==
    /\ pc = "colored"
    /\ variant = "stream1"
    /\ Len(Current) = 3
    /\ Attached(1) = -5 /\ Attached(2) = 0 /\ Attached(3) = 20
    /\ RowsFor(2) = {}
    /\ FillColor(2) = <<51, 204, 0>>

\* C12: when the color stage starts every feature holds an attached value,
\* and on a non-empty joined collection neither the bounds nor the color loop
\* raises.
C12_ColorAfterJoin ==
    /\ pc \in {"joined", "scaled"} =>
          \A i \in 1..Len(Current) :
              /\ variable \in DOMAIN Current[i].props
              /\ Current[i].props[variable] \in Int
    /\ ~(pc = "failed" /\ raised_at \in {"joined", "scaled"} /\ Current # << >>)
    /\ PostColor => Len(ratios) = Len(Current)

\* The bounds have been computed over three joined features, the last two of
\* them unmatched.
C12_Witness ==
    /\ pc = "scaled"
    /\ Len(Current) = 3
    /\ RowsFor(1) # {} /\ RowsFor(2) = {} /\ RowsFor(3) = {}
    /\ Attached(1) = 20
    /\ min_val = 0 /\ max_val = 20
\* The number of assignments the loop's log w holds for feature i.
Count(w, i) == Cardinality({t \in 1..Len(w) : w[t] = i})

\* C13: in a run each feature's mapping is assigned exactly once by the join
\* loop and exactly once by the color loop; before the color loop runs it has
\* assigned nothing, and a run that ends before the join assigns nothing.
C13_WrittenOncePerStage ==
    /\ PostJoin =>
          \A i \in 1..Len(Current) :
              /\ Count(writes.join, i) = 1
              /\ variable \in DOMAIN Current[i].props
    /\ PostJoin => Len(writes.join) = Len(Current)
    /\ PostColor =>
          /\ Len(writes.color) = Len(Current)
          /\ \A i \in 1..Len(Current) :
                /\ Count(writes.color, i) = 1
                /\ "fill_color" \in DOMAIN Current[i].props
    /\ ~PostColor => writes.color = << >>
    /\ ~PostJoin /\ ~(pc = "failed" /\ raised_at \in {"joined", "scaled", "colored"})
          => writes.join = << >>

\* Two features share an identifier and a third has another; all are colored.
C13_Witness ==
    /\ pc = "colored"
    /\ Len(Current) = 3
    /\ Current[1].props.GEOID = "A"
    /\ Current[2].props.GEOID = "A"
    /\ Current[3].props.GEOID = "C"
    /\ writes = [join |-> <<1, 2, 3>>, color |-> <<1, 2, 3>>]
\* The pairs feature i contributes to the view centre: the first ring of a
\* Polygon, the first ring of the first polygon of a MultiPolygon.
FirstRing(i) ==
    LET g == Current[i].geometry
    IN  IF g.type \in {"Polygon", "MultiPolygon"} THEN g.polys[1][1] ELSE << >>

RECURSIVE RingSum(_, _)
RingSum(ring, k) == IF ring = << >> THEN 0 ELSE ring[1][k] + RingSum(Tail(ring), k)

RECURSIVE FirstRingSum(_, _)
FirstRingSum(n, k) ==
    IF n = 0 THEN 0 ELSE FirstRingSum(n - 1, k) + RingSum(FirstRing(n), k)

RECURSIVE FirstRingCount(_)
FirstRingCount(n) == IF n = 0 THEN 0 ELSE FirstRingCount(n - 1) + Len(FirstRing(n))

\* C14: when pairs are extracted the view centre is the mean longitude and
\* mean latitude of the first-ring pairs alone.
C14_CentreIsFirstRingMean ==
    (pc \in {"centered", "done"} /\ variant # "stream"
        /\ FirstRingCount(Len(Current)) > 0) =>
        LET n == FirstRingCount(Len(Current))
        IN  /\ center.lon.den > 0 /\ center.lat.den > 0
            /\ center.lon.num * n = FirstRingSum(Len(Current), 1) * center.lon.den
            /\ center.lat.num * n = FirstRingSum(Len(Current), 2) * center.lat.den

\* A Polygon with a hole and a MultiPolygon of two polygons: the centre is the
\* mean of the five first-ring pairs.
C14_Witness ==
    /\ pc = "centered"
    /\ Len(Current) = 2
    /\ Current[1].geometry = PolygonTwoRings
    /\ Current[2].geometry = MultiPolygon1
    /\ center = [lon |-> [num |-> -389, den |-> 5], lat |-> [num |-> 236, den |-> 5]]

\* No pair can be extracted from feature i: its geometry is neither a Polygon
\* nor a MultiPolygon, or its first ring is empty.
NoPairs(i) ==
    LET g == Current[i].geometry
    IN  \/ g.type \notin {"Polygon", "MultiPolygon"}
        \/ (Len(g.polys) >= 1 /\ Len(g.polys[1]) >= 1 /\ g.polys[1][1] = << >>)

\* C15: on a non-empty collection from which no pair can be extracted the
\* centroid step does not raise and the view centre is the fallback.
C15_FallbackWhenNoPairs ==
    (variant # "stream" /\ Current # << >> /\ \A i \in 1..Len(Current) : NoPairs(i)) =>
        /\ ~(pc = "failed" /\ raised_at = "colored")
        /\ pc \in {"centered", "done"} => center = DefaultCenter

\* A Point and a Polygon with an empty first ring: the centre is the fallback.
C15_Witness ==
    /\ pc = "centered"
    /\ Len(Current) = 2
    /\ Current[1].geometry = Point1
    /\ Current[2].geometry = PolygonEmptyRing
    /\ center = DefaultCenter
\* round(a / b) for a >= 0 and b > 0: the nearest integer, a half going to the
\* even neighbour.
RoundDiv(a, b) ==
    LET q == a \div b
        rem == a - q * b
    IN  IF 2 * rem < b THEN q
        ELSE IF 2 * rem > b THEN q + 1
        ELSE IF q % 2 = 0 THEN q ELSE q + 1

\* The ratio of feature i recomputed from its attached value and the bounds,
\* as numerator and denominator.
RatioNum(i) == IF max_val = min_val THEN 0 ELSE Attached(i) - min_val
RatioDen(i) == IF max_val = min_val THEN 1 ELSE max_val - min_val

\* The channel of feature i that rises with the value and the one that falls.
RisingChannel(i) == IF variant = "stream" THEN FillColor(i)[2] ELSE FillColor(i)[1]
FallingChannel(i) == IF variant = "stream" THEN FillColor(i)[1] ELSE FillColor(i)[2]

\* C16 as stated: each varying channel is round(255 * ratio) or
\* round(255 * (1 - ratio)), so that both are 128 at ratio 0.5.
C16_ChannelsRounded ==
    PostColor =>
        \A i \in 1..Len(Current) :
            /\ RisingChannel(i) = RoundDiv(255 * RatioNum(i), RatioDen(i))
            /\ FallingChannel(i) = RoundDiv(255 * (RatioDen(i) - RatioNum(i)), RatioDen(i))

\* C16: each varying channel is 255 times the ratio, or 255 times one minus
\* the ratio, with the fraction dropped: the largest integer not above it.
C16_ChannelsTruncated ==
    PostColor =>
        \A i \in 1..Len(Current) :
            LET n == RatioNum(i)
                d == RatioDen(i)
                up == RisingChannel(i)
                down == FallingChannel(i)
            IN  /\ up * d <= 255 * n /\ 255 * n < (up + 1) * d
                /\ down * d <= 255 * (d - n) /\ 255 * (d - n) < (down + 1) * d

\* The middle value of 0, 10, 20 has ratio 0.5 and both varying channels 127.
C16_Witness ==
    /\ pc = "colored"
    /\ variant = "stream1"
    /\ Len(Current) = 3
    /\ Attached(1) = 0 /\ Attached(2) = 10 /\ Attached(3) = 20
    /\ FillColor(2) = <<127, 127, 0>>
\* C18: after a geometry response with an error status or a body that is not
\* JSON the run has ended at the fetch, by st.stop() or by the HTTPError of
\* raise_for_status(), and the join stage is not entered with geojson unbound.
C18_FetchErrorStopsBeforeJoin ==
    /\ geom_res.kind \in {"http_error", "bad_json"} =>
          \/ pc = "stopped"
          \/ (pc = "failed" /\ err = "HTTPError" /\ raised_at = "tabular_done")
    /\ pc = "geometry_done" => geojson.bound
\* C19: a stream3.py run over a non-empty collection whose features all have
\* GEOID does not fail while indexing or joining, and once past the join every
\* feature holds its value under the variable name.
C19_Stream3CompletesJoin ==
    (/\ variant = "stream3"
     /\ geom_res.kind = "ok"
     /\ Fetched # << >>
     /\ \A i \in 1..Len(Fetched) : "GEOID" \in DOMAIN Fetched[i].props) =>
        /\ ~(pc = "failed" /\ raised_at \in {"geometry_done", "indexed"})
        /\ PostJoin => \A i \in 1..Len(Current) : variable \in DOMAIN Current[i].props
\* C20: whenever the navigate view of stream_app1.py reads
\* coordinates[current_index], 0 <= current_index < len(coordinates), and no
\* rerun ends with the IndexError of that read.
C20_IndexInRange ==
    /\ \A k \in 1..Len(view.read) :
          0 <= view.read[k] /\ view.read[k] < Len(coordinates)
    /\ ~(view.ended = "failed" /\ view.line = 158)
\* C21: a rerun of stream_app1.py that reaches the display block with an empty
\* coordinate list ends with the 'No coordinates found.' report and without an
\* exception, whether show_all is true or false.
C21_EmptyListIsReported ==
    (view.mode \in {"all", "navigate"} /\ coordinates = << >>) =>
        /\ view.ended = "done"
        /\ view.err = "none"
        /\ view.shown = "no_coordinates"
\* The session has been initialised by a rerun that reached the buttons.
SessionSet == DOMAIN session_state = {"current_index", "show_all"}
current_index == session_state["current_index"]
show_all == session_state["show_all"]

\* C22: over a fixed list of n >= 1 coordinates, 0 <= current_index <= n-1
\* after any clicks; Previous at index 0 and Next at index n-1 leave
\* current_index unchanged, otherwise Previous subtracts and Next adds 1.
C22_IndexStepsWithinList ==
    /\ [](SessionSet =>
            /\ Len(coordinates) >= 1
            /\ 0 <= current_index /\ current_index <= Len(coordinates) - 1)
    /\ [][(SessionSet /\ view'.click = "previous") =>
            session_state'["current_index"] =
                IF current_index = 0 THEN current_index ELSE current_index - 1]_vars
    /\ [][(SessionSet /\ view'.click = "next") =>
            session_state'["current_index"] =
                IF current_index = Len(coordinates) - 1
                THEN current_index ELSE current_index + 1]_vars

\* Next was clicked at the last index of a list of three: the button was
\* drawn disabled by that rerun and the index stayed.
C22_Witness ==
    /\ SessionSet
    /\ Len(coordinates) = 3
    /\ view.click = "next"
    /\ ~view.next
    /\ ~show_all
    /\ current_index = 2
\* C23: in the scripts keyed on properties.GEOID, when a fetched feature lacks
\* its GEOID neither loop has assigned to any feature: no feature holds an
\* attached value or a fill_color.
C23_AbortBeforeAnyWrite ==
    (/\ variant # "stream3"
     /\ geojson.bound
     /\ \E i \in 1..Len(Fetched) : "GEOID" \notin DOMAIN Fetched[i].props) =>
        /\ pc \in {"geometry_done", "failed"}
        /\ writes.join = << >> /\ writes.color = << >>
        /\ \A i \in 1..Len(Current) :
              /\ variable \notin DOMAIN Current[i].props
              /\ "fill_color" \notin DOMAIN Current[i].props

\* stream2.py has failed on a collection whose first two features have a
\* GEOID with a matching row and whose last feature has none.
C23_Witness ==
    /\ pc = "failed"
    /\ err = "KeyError"
    /\ variant = "stream2"
    /\ Len(Fetched) = 3
    /\ "GEOID" \notin DOMAIN Fetched[3].props
    /\ \A i \in 1..2 :
          /\ "GEOID" \in DOMAIN Fetched[i].props
          /\ \E k \in 1..Len(df) : df[k].GEOID = Fetched[i].props.GEOID
    /\ writes.join = << >>
\* C24: while show_all is true no rerun changes current_index; a rerun that
\* handles a Toggle click negates show_all and changes nothing else of the
\* session; the second of two consecutive Toggle clicks leaves the session as
\* the first found it.
C24_ToggleFrame ==
    /\ [][(SessionSet /\ show_all) =>
            session_state'["current_index"] = current_index]_vars
    /\ [][(SessionSet /\ view'.click = "toggle") =>
            session_state' = [session_state EXCEPT !["show_all"] = ~show_all]]_vars
    /\ [][(view.click = "toggle" /\ view'.click = "toggle") =>
            session_state' = view.before]_vars

\* Toggle was clicked while all coordinates were shown and the session stood
\* at the third coordinate: the navigate view is back at that coordinate.
C24_Witness ==
    /\ SessionSet
    /\ view.click = "toggle"
    /\ view.before["show_all"]
    /\ view.before["current_index"] = 2
    /\ ~show_all
    /\ current_index = 2
    /\ view.read = <<2>>
====
